---- MODULE Spec2Model ----
(***************************************************************************)
(* Model of the launch-list dialog of bookhood-web: HomePage (the page     *)
(* composition that owns isModalOpen) and LaunchModal (email form, focus   *)
(* trap, scroll lock, deferred focus), together with the part of the       *)
(* browser the code talks to: the focused element, the body's overflow     *)
(* style, window keydown listeners, pending timeouts and click bubbling.   *)
(*                                                                         *)
(* One action is one browser event together with everything React does in  *)
(* response to it: the handlers, the re-render, the DOM commit and the     *)
(* passive effects (cleanup of the previous effect, then the effect body). *)
(***************************************************************************)
EXTENDS Integers, Sequences, FiniteSets, TLC

VARIABLES
    isModalOpen,     \* HomePage: useState(false)
    email,           \* LaunchModal: useState("")
    status,          \* LaunchModal: useState("idle")
    lastFocusedRef,  \* LaunchModal: useRef(null), an element id or "null"
    overflow,        \* document.body.style overflow: "hidden" or "unset"
    listeners,       \* number of handleKeyDown closures attached to window
    timers,          \* ids of the pending window.setTimeout callbacks
    cleanup,         \* cleanup closure returned by the last effect run
    activeElement,   \* document.activeElement, an element id
    dom,             \* rendered children of the dialog panel, <<>> if null
    ev,              \* the event dispatched by the last step
    hist,            \* history: what the last open and the last close saw
    detached,        \* page elements that were removed from the document
    page,            \* the page component that is rendered: "HomePage" or "Home"
    rail             \* a MarqueeRail: its props, what it rendered, its animation

vars == <<isModalOpen, email, status, lastFocusedRef, overflow, listeners,
          timers, cleanup, activeElement, dom, ev, hist, detached, page, rail>>

----------------------------------------------------------------------------
(* Bounds *)

\* longest email string that is typed
MaxEmailLen == 2

\* longest list of items given to a MarqueeRail
MaxItems == 2

\* widest item and widest gap of a MarqueeRail, in px
MaxWidth == 2
MaxGap == 2

----------------------------------------------------------------------------
(* Strings: an email is a sequence of characters *)

Chars == {"a", " "}
WhiteSpace == {" "}

EmailValues == UNION {[1..n -> Chars] : n \in 0..MaxEmailLen}

RECURSIVE TrimStart(_)
TrimStart(str) ==
    IF Len(str) > 0 /\ Head(str) \in WhiteSpace THEN TrimStart(Tail(str)) ELSE str

RECURSIVE TrimEnd(_)
TrimEnd(str) ==
    IF Len(str) > 0 /\ str[Len(str)] \in WhiteSpace
    THEN TrimEnd(SubSeq(str, 1, Len(str) - 1))
    ELSE str

\* String.prototype.trim
Trim(str) == TrimEnd(TrimStart(str))

----------------------------------------------------------------------------
(* Elements *)

Body == "body"
Hero == "hero"
Footer == "footer"
FooterLink == "mailto"
CloseButton == "close"
Description == "text"
EmailInput == "input"
SubmitButton == "submit"
SuccessRegion == "success"
Overlay == "overlay"
Panel == "panel"
Null == "null"

\* the focusable elements HomePage renders outside the dialog, in DOM order
PageTabOrder == <<Hero, Footer, FooterLink>>

Triggers == {Hero, Footer}

\* a rendered element; ariaDisabled is its aria-disabled attribute, "null"
\* when the element has none
Element(id, tag, disabled, value) ==
    [id |-> id, tag |-> tag, disabled |-> disabled, value |-> value,
     ariaDisabled |-> Null]

\* variant: the button is rendered without aria-disabled
PrimaryCtaButtonNoAria(id, disabled) == Element(id, "button", disabled, <<>>)

\* <button disabled={disabled} aria-disabled={disabled || undefined} />
PrimaryCtaButton(id, disabled) ==
    [Element(id, "button", disabled, <<>>)
        EXCEPT !.ariaDisabled = IF disabled THEN "true" ELSE Null]

SeqToSet(seq) == {seq[i] : i \in 1..Len(seq)}
Ids(elements) == [i \in 1..Len(elements) |-> elements[i].id]

----------------------------------------------------------------------------
(* The state as one record, so that handlers compose as functions *)

State ==
    [isModalOpen |-> isModalOpen, email |-> email, status |-> status,
     lastFocusedRef |-> lastFocusedRef, overflow |-> overflow,
     listeners |-> listeners, timers |-> timers, cleanup |-> cleanup,
     activeElement |-> activeElement, dom |-> dom, ev |-> ev, hist |-> hist,
     detached |-> detached, page |-> page]

Commit(t) ==
    /\ isModalOpen' = t.isModalOpen
    /\ email' = t.email
    /\ status' = t.status
    /\ lastFocusedRef' = t.lastFocusedRef
    /\ overflow' = t.overflow
    /\ listeners' = t.listeners
    /\ timers' = t.timers
    /\ cleanup' = t.cleanup
    /\ activeElement' = t.activeElement
    /\ dom' = t.dom
    /\ ev' = t.ev
    /\ hist' = t.hist
    /\ detached' = t.detached
    /\ page' = t.page
    /\ rail' = rail

Mounted(s) == Len(s.dom) > 0

SubState(s) ==
    IF ~s.isModalOpen THEN "Closed"
    ELSE IF s.status = "success" THEN "Open-Success" ELSE "Open-Idle"

NoEvent ==
    [type |-> "none", target |-> Null, key |-> Null, shiftKey |-> FALSE,
     defaultPrevented |-> FALSE, stopped |-> FALSE, reachedOverlay |-> FALSE,
     handlerRuns |-> 0, submitted |-> FALSE, pending |-> <<>>,
     requests |-> <<>>,
     pre |-> "Closed", preFocus |-> Body, prePending |-> FALSE]

\* a fresh event of the given kind, about to be dispatched in state s
Begin(s, type, target, key, shiftKey) ==
    [s EXCEPT !.ev = [NoEvent EXCEPT !.type = type, !.target = target,
                                     !.key = key, !.shiftKey = shiftKey,
                                     !.pre = SubState(s),
                                     !.preFocus = s.activeElement,
                                     !.prePending = s.timers # {}]]

PreventDefault(s) == [s EXCEPT !.ev.defaultPrevented = TRUE]
StopPropagation(s) == [s EXCEPT !.ev.stopped = TRUE]

----------------------------------------------------------------------------
(* The browser: which elements exist, which can take focus *)

\* focusableSelectors, applied to one element
MatchesFocusable(el) == el.tag \in {"a", "button", "input"} /\ ~el.disabled

\* dialogRef.current.querySelectorAll(focusableSelectors): document order
QuerySelectorAll(elements) == SelectSeq(elements, MatchesFocusable)

\* no page component is mounted
NoPage == "none"

\* the page's focusable elements that are still in the document
PageElements(s) ==
    IF s.page = NoPage THEN <<>>
    ELSE SelectSeq(PageTabOrder, LAMBDA id : id \notin s.detached)

InDocument(s, id) ==
    id \in SeqToSet(PageElements(s)) \cup SeqToSet(Ids(s.dom)) \cup {Body}

CanFocus(s, id) ==
    \/ id \in SeqToSet(PageElements(s))
    \/ id \in SeqToSet(Ids(QuerySelectorAll(s.dom)))

\* element.focus(); a no-op on null, on the body, on an element that has left
\* the document and on a disabled control
Focus(s, id) == IF CanFocus(s, id) THEN [s EXCEPT !.activeElement = id] ELSE s

\* the click's mousedown: a focusable target takes focus (a button only where
\* the platform focuses buttons on click), any other target blurs to the body
MouseFocus(s, id, focusOnClick) ==
    IF id = EmailInput \/ (id = FooterLink) THEN Focus(s, id)
    ELSE IF id \in {Hero, Footer, CloseButton, SubmitButton}
         THEN (IF focusOnClick THEN Focus(s, id) ELSE s)
         ELSE [s EXCEPT !.activeElement = Body]

\* sequential focus navigation of the whole document
DocumentTabOrder(s) == PageElements(s) \o Ids(QuerySelectorAll(s.dom))

IndexOf(seq, x) ==
    IF x \in SeqToSet(seq) THEN CHOOSE i \in 1..Len(seq) : seq[i] = x ELSE 0

\* the default action of a Tab keydown that no handler prevented: the next
\* (Shift: previous) element of the tab order; from the body, which is
\* document.activeElement when nothing has focus, the first (Shift: last)
\* one; past either end the focus leaves the document
DefaultTab(s) ==
    IF s.ev.defaultPrevented THEN s
    ELSE LET order == DocumentTabOrder(s)
             i == IndexOf(order, s.activeElement)
             j == IF s.ev.shiftKey
                  THEN (IF i = 0 THEN Len(order) ELSE i - 1)
                  ELSE (IF i = 0 THEN 1 ELSE i + 1)
         IN  IF j \in 1..Len(order)
             THEN [s EXCEPT !.activeElement = order[j]]
             ELSE [s EXCEPT !.activeElement = Body]

----------------------------------------------------------------------------
(* LaunchModal: render *)

\* variant: the length is taken without trim()
isSubmitDisabledNoTrim(emailValue) == Len(emailValue) = 0

\* useMemo(() => email.trim().length === 0, [email])
isSubmitDisabled(emailValue) == Len(Trim(emailValue)) = 0

\* variant: the submit button is rendered without its disabled prop
RenderLaunchModalSubmitEnabled(s) ==
    IF ~s.isModalOpen THEN <<>>
    ELSE <<Element(CloseButton, "button", FALSE, <<>>),
           Element(Description, "p", FALSE, <<>>),
           Element(EmailInput, "input", FALSE, s.email),
           PrimaryCtaButton(SubmitButton, FALSE)>>
         \o (IF s.status = "success"
             THEN <<Element(SuccessRegion, "div", FALSE, <<>>)>>
             ELSE <<>>)

\* the children of the dialog panel; null (nothing) when !open
RenderLaunchModal(s) ==
    IF ~s.isModalOpen THEN <<>>
    ELSE <<Element(CloseButton, "button", FALSE, <<>>),
           Element(Description, "p", FALSE, <<>>),
           Element(EmailInput, "input", FALSE, s.email),
           PrimaryCtaButton(SubmitButton, isSubmitDisabled(s.email))>>
         \o (IF s.status = "success"
             THEN <<Element(SuccessRegion, "div", FALSE, <<>>)>>
             ELSE <<>>)

\* React commits the render to the DOM; an element that is removed while it
\* has focus leaves the focus on the body
CommitDom(s) ==
    LET t == [s EXCEPT !.dom = RenderLaunchModal(s)]
    IN  IF InDocument(t, t.activeElement) THEN t
        ELSE [t EXCEPT !.activeElement = Body]

----------------------------------------------------------------------------
(* LaunchModal: the effect on [open, onClose] *)

NoCleanup == [registered |-> FALSE, timer |-> 0]

\* window.setTimeout returns an id that no pending timer has
NewTimerId(pending) ==
    CHOOSE n \in 1..(Cardinality(pending) + 1) : n \notin pending

\* variant: the cleanup without removeEventListener
EffectCleanupKeepsListener(s) ==
    IF ~s.cleanup.registered THEN s
    ELSE [s EXCEPT !.timers = s.timers \ {s.cleanup.timer},
                   !.overflow = "unset",
                   !.cleanup = NoCleanup]

\* variant: the cleanup without clearTimeout
EffectCleanupKeepsTimer(s) ==
    IF ~s.cleanup.registered THEN s
    ELSE [s EXCEPT !.listeners = s.listeners - 1,
                   !.overflow = "unset",
                   !.cleanup = NoCleanup]

\* variant: the cleanup without removeProperty("overflow")
EffectCleanupKeepsOverflow(s) ==
    IF ~s.cleanup.registered THEN s
    ELSE [s EXCEPT !.listeners = s.listeners - 1,
                   !.timers = s.timers \ {s.cleanup.timer},
                   !.cleanup = NoCleanup]

\* the function the open branch returns
EffectCleanup(s) ==
    IF ~s.cleanup.registered THEN s
    ELSE [s EXCEPT !.listeners = s.listeners - 1,
                   !.timers = s.timers \ {s.cleanup.timer},
                   !.overflow = "unset",
                   !.cleanup = NoCleanup]

\* variant: the !open branch without setStatus("idle") and setEmail("")
EffectClosedNoReset(s) ==
    LET t == [s EXCEPT !.overflow = "unset", !.cleanup = NoCleanup]
    IN  CommitDom(IF t.lastFocusedRef = Null THEN t
                  ELSE Focus(t, t.lastFocusedRef))

\* variant: without an element to give the focus to, the branch returns
\* before it resets anything
EffectClosedNeedsElement(s) ==
    LET t == [s EXCEPT !.status = "idle", !.email = <<>>,
                       !.overflow = "unset", !.cleanup = NoCleanup]
    IN  IF CanFocus(s, s.lastFocusedRef) \/ s.lastFocusedRef = Body
        THEN CommitDom(Focus(t, t.lastFocusedRef))
        ELSE CommitDom([s EXCEPT !.cleanup = NoCleanup])

\* if (!open) { ... return undefined; }
EffectClosed(s) ==
    LET t == [s EXCEPT !.status = "idle", !.email = <<>>,
                       !.overflow = "unset", !.cleanup = NoCleanup]
    IN  CommitDom(IF t.lastFocusedRef = Null THEN t
                  ELSE Focus(t, t.lastFocusedRef))

\* the rest of the effect body, run when open
EffectOpen(s) ==
    LET timer == NewTimerId(s.timers)
    IN  [s EXCEPT !.lastFocusedRef = s.activeElement,
                  !.overflow = "hidden",
                  !.timers = s.timers \cup {timer},
                  !.listeners = s.listeners + 1,
                  !.cleanup = [registered |-> TRUE, timer |-> timer]]

EffectBody(s) == IF ~s.isModalOpen THEN EffectClosed(s) ELSE EffectOpen(s)

\* the dependencies changed: previous cleanup, then the effect body
RunEffect(s) == EffectBody(EffectCleanup(s))

----------------------------------------------------------------------------
(* HomePage *)

\* HomePage re-renders: LaunchModal gets the new open and a new closeModal
\* closure, so the effect's dependencies always differ and it re-runs
RenderHomePage(s) == RunEffect(CommitDom(s))

\* variant: the effect runs after every render, as without a dependency list
RenderLaunchModalOnlyRerunsEffect(s) == RunEffect(CommitDom(s))

\* LaunchModal re-renders on its own state: open and onClose are the same
\* values as in the previous render, the effect does not re-run
RenderLaunchModalOnly(s) == CommitDom(s)

\* setIsModalOpen(value): queued until the running handlers have returned
SetIsModalOpen(s, value) ==
    [s EXCEPT !.ev.pending = Append(s.ev.pending, value),
              !.ev.requests = Append(s.ev.requests, value)]

openModal(s) == SetIsModalOpen(s, TRUE)
\* variant: closeModal sets the flag it should clear
closeModalKeepsOpen(s) == SetIsModalOpen(s, TRUE)

closeModal(s) == SetIsModalOpen(s, FALSE)

\* variant: every queued update re-renders, also one that changes nothing
FlushNoBailOut(s) ==
    LET queue == s.ev.pending
        t == [s EXCEPT !.ev.pending = <<>>]
    IN  IF Len(queue) = 0 THEN t
        ELSE LET value == queue[Len(queue)]
                 h == IF value = s.isModalOpen THEN t.hist
                      ELSE IF value
                      THEN [t.hist EXCEPT !.focusBeforeOpen = t.activeElement]
                      ELSE [t.hist EXCEPT !.closedFrom = SubState(t)]
             IN  RenderHomePage([t EXCEPT !.isModalOpen = value, !.hist = h])

\* React processes the queued updates: no render if the state is unchanged
Flush(s) ==
    LET queue == s.ev.pending
        t == [s EXCEPT !.ev.pending = <<>>]
    IN  IF Len(queue) = 0 \/ queue[Len(queue)] = s.isModalOpen THEN t
        ELSE LET value == queue[Len(queue)]
                 h == IF value
                      THEN [t.hist EXCEPT !.focusBeforeOpen = t.activeElement]
                      ELSE [t.hist EXCEPT !.closedFrom = SubState(t)]
             IN  RenderHomePage([t EXCEPT !.isModalOpen = value, !.hist = h])

----------------------------------------------------------------------------
(* LaunchModal: handlers *)

\* variant: Escape is swallowed without calling onClose
EscapeBranchNoClose(r) == PreventDefault(r)

\* handleKeyDown: if (event.key === "Escape") { ... }
EscapeBranch(r) == closeModal(PreventDefault(r))

\* variant: the wrap-around moves the focus without event.preventDefault()
TabBranchNoPreventDefault(r) ==
    LET focusable == QuerySelectorAll(r.dom)
    IN  IF Len(focusable) = 0 THEN PreventDefault(r)
        ELSE LET first == focusable[1]
                 last == focusable[Len(focusable)]
             IN  IF ~r.ev.shiftKey /\ r.activeElement = last.id
                 THEN Focus(r, first.id)
                 ELSE IF r.ev.shiftKey /\ r.activeElement = first.id
                 THEN Focus(r, last.id)
                 ELSE r

\* variant: the focusable elements are those found when the dialog opened,
\* with the empty email of that moment
TabBranchCachedFocusable(r) ==
    LET focusable == QuerySelectorAll(
                         RenderLaunchModal([r EXCEPT !.email = <<>>, !.status = "idle"]))
    IN  IF Len(focusable) = 0 THEN PreventDefault(r)
        ELSE LET first == focusable[1]
                 last == focusable[Len(focusable)]
             IN  IF ~r.ev.shiftKey /\ r.activeElement = last.id
                 THEN Focus(PreventDefault(r), first.id)
                 ELSE IF r.ev.shiftKey /\ r.activeElement = first.id
                 THEN Focus(PreventDefault(r), last.id)
                 ELSE r

\* variant: without the guard for an empty list; first and last are
\* undefined, no comparison with them succeeds
TabBranchNoEmptyGuard(r) ==
    LET focusable == QuerySelectorAll(r.dom)
    IN  IF Len(focusable) = 0 THEN r
        ELSE LET first == focusable[1]
                 last == focusable[Len(focusable)]
             IN  IF ~r.ev.shiftKey /\ r.activeElement = last.id
                 THEN Focus(PreventDefault(r), first.id)
                 ELSE IF r.ev.shiftKey /\ r.activeElement = first.id
                 THEN Focus(PreventDefault(r), last.id)
                 ELSE r

\* handleKeyDown: if (event.key === "Tab" && dialogRef.current) { ... }
TabBranch(r) ==
    LET focusable == QuerySelectorAll(r.dom)
    IN  IF Len(focusable) = 0 THEN PreventDefault(r)
        ELSE LET first == focusable[1]
                 last == focusable[Len(focusable)]
             IN  IF ~r.ev.shiftKey /\ r.activeElement = last.id
                 THEN Focus(PreventDefault(r), first.id)
                 ELSE IF r.ev.shiftKey /\ r.activeElement = first.id
                 THEN Focus(PreventDefault(r), last.id)
                 ELSE r

\* handleKeyDown, the listener the open branch of the effect attaches to window
handleKeyDown(s) ==
    LET r == [s EXCEPT !.ev.handlerRuns = s.ev.handlerRuns + 1]
    IN  IF r.ev.key = "Escape" THEN EscapeBranch(r)
        ELSE IF r.ev.key = "Tab" /\ Mounted(r) THEN TabBranch(r)
        ELSE r

\* variant: the submission also clears the field
handleSubmitClearsEmail(s) ==
    RenderLaunchModalOnly([PreventDefault(s) EXCEPT !.status = "success", !.email = <<>>])

\* handleSubmit
handleSubmit(s) == RenderLaunchModalOnly([PreventDefault(s) EXCEPT !.status = "success"])

\* variant: an edit of the field takes the status back to "idle"
onChangeResetsStatus(s, value) ==
    RenderLaunchModalOnly([s EXCEPT !.email = value, !.status = "idle"])

\* onChange={(event) => setEmail(event.target.value)}
onChange(s, value) == RenderLaunchModalOnly([s EXCEPT !.email = value])

\* onClick of the overlay div
OverlayOnClick(s) == closeModal([s EXCEPT !.ev.reachedOverlay = TRUE])

\* variant: the panel lets the click propagate
PanelOnClickNoStop(s) == s

\* onClick={(event) => event.stopPropagation()} of the dialog panel
PanelOnClick(s) == StopPropagation(s)

\* onClick of the close button
CloseButtonOnClick(s) == closeModal(s)

\* the React onClick handler of a node of the dialog's tree
OnClick(s, node) ==
    IF node = CloseButton THEN CloseButtonOnClick(s)
    ELSE IF node = Panel THEN PanelOnClick(s)
    ELSE IF node = Overlay THEN OverlayOnClick(s)
    ELSE s

\* the nodes a click on the target bubbles through, innermost first
BubblePath(target) ==
    IF target = Overlay THEN <<Overlay>> ELSE <<target, Panel, Overlay>>

\* the handlers on the path run in order until one stops the propagation
RECURSIVE Bubble(_, _)
Bubble(s, path) ==
    IF Len(path) = 0 \/ s.ev.stopped THEN s
    ELSE Bubble(OnClick(s, Head(path)), Tail(path))

\* every listener attached to window gets the keydown
RECURSIVE DispatchKeyDown(_, _)
DispatchKeyDown(s, n) ==
    IF n = 0 THEN s ELSE DispatchKeyDown(handleKeyDown(s), n - 1)

\* variant: the callback does not focus the input
TimerCallbackNoFocus(s) == s

\* the callback of window.setTimeout: inputRef.current?.focus()
TimerCallback(s) == IF Mounted(s) THEN Focus(s, EmailInput) ELSE s

----------------------------------------------------------------------------
(* The browser: activation of controls *)

\* onNotifyClick / onJoinClick, both bound to openModal by HomePage; the two
\* buttons of Home have no onClick
TriggerOnClick(s) == IF s.page = "HomePage" THEN openModal(s) ELSE s

\* the form's submit event; the browser's own validation of the field is not
\* modelled, so every submission the enabled button allows reaches onSubmit
SubmitForm(s) == handleSubmit([s EXCEPT !.ev.submitted = TRUE])

SubmitIsDisabled(s) ==
    \E i \in 1..Len(s.dom) : s.dom[i].id = SubmitButton /\ s.dom[i].disabled

\* a click event on an element of the page or of the dialog: the React
\* handlers on its path, the queued state updates, then the default action
Click(s, target) ==
    IF target \in Triggers THEN Flush(TriggerOnClick(s))
    ELSE IF target = SubmitButton /\ SubmitIsDisabled(s) THEN s
    ELSE LET r == Flush(Bubble(s, BubblePath(target)))
         IN  IF target = SubmitButton /\ Mounted(r) THEN SubmitForm(r) ELSE r

\* the default action of an Enter keydown on the focused element
DefaultEnter(s) ==
    IF s.activeElement \in Triggers \cup {CloseButton, SubmitButton}
    THEN Click(s, s.activeElement)
    ELSE IF s.activeElement = EmailInput /\ ~SubmitIsDisabled(s)
    THEN SubmitForm(s)
    ELSE s

----------------------------------------------------------------------------
(* MarqueeRail *)

ItemSet == {"a", "b"}
ItemLists == UNION {[1..n -> ItemSet] : n \in 0..MaxItems}

\* lengths are counted in half pixels, so that 50% of a whole number of
\* pixels is a whole number
Px(n) == 2 * n

\* the props: items, the width the caller's renderItem gives every item and
\* the length var(gapVar) resolves to
RailProps == [items : ItemLists, width : 1..MaxWidth, gap : 0..MaxGap]

\* renderItem as GallerySection and ReviewsSection pass it: one fixed-width
\* element per call, keyed by the item and the index
renderItem(item, index) == [item |-> item, index |-> index]

\* variant: the items are not duplicated
marqueeItemsOnce(items) == items

\* const marqueeItems = [...items, ...items]
marqueeItems(items) == items \o items

\* marqueeItems.map((item, index) => renderItem(item, index)); map counts
\* the index from 0
RailChildren(items) ==
    LET all == marqueeItems(items)
    IN  [k \in 1..Len(all) |-> renderItem(all[k], k - 1)]

\* "flex w-max gap-[var(--marquee-gap)]": the children side by side, the gap
\* between neighbours; the left edge of the k-th child
ChildX(props, k) == (k - 1) * (Px(props.width) + Px(props.gap))

\* w-max: the track is as wide as its content
TrackWidth(props, n) ==
    IF n = 0 THEN 0 ELSE n * Px(props.width) + (n - 1) * Px(props.gap)

\* variant: "--marquee-distance": "-50%"
MarqueeDistanceHalf(trackWidth, gap) == 0 - (trackWidth \div 2)

\* "--marquee-distance": `calc(-50% - var(${gapVar}))`, the percentage being
\* of the track's own width
MarqueeDistance(trackWidth, gap) == 0 - ((trackWidth \div 2) + gap)

\* variant: className without the motion-reduce classes
RailAnimationAlways(reducedMotion) == "marquee"

\* className "animate-marquee motion-reduce:animate-none
\* motion-reduce:[animation:none!important]"
RailAnimation(reducedMotion) == IF reducedMotion THEN "none" ELSE "marquee"

\* the marquee keyframes: from no translation to --marquee-distance
KeyframeTranslateX(distance, keyframe) == IF keyframe = "to" THEN distance ELSE 0

\* the rail as rendered under the given motion preference, its animation at
\* the first keyframe
RenderedRail(props, reducedMotion) ==
    LET children == RailChildren(props.items)
    IN  [props |-> props,
         rendered |-> TRUE,
         children |-> children,
         distance |-> MarqueeDistance(TrackWidth(props, Len(children)), Px(props.gap)),
         reducedMotion |-> reducedMotion,
         animation |-> RailAnimation(reducedMotion),
         keyframe |-> "from",
         translateX |-> 0]

\* a rail that has its props and has not rendered yet
UnrenderedRail(props, reducedMotion) ==
    [props |-> props, rendered |-> FALSE, children |-> <<>>, distance |-> 0,
     reducedMotion |-> reducedMotion, animation |-> "none",
     keyframe |-> "from", translateX |-> 0]

\* the rail of the page while the dialog is looked at: rendered, not moving
PageRailProps == [items |-> <<>>, width |-> 1, gap |-> 0]

----------------------------------------------------------------------------
(* Initial state: HomePage and LaunchModal mounted, the effect has run once *)
(* with open = false                                                        *)

Init ==
    /\ isModalOpen = FALSE
    /\ email = <<>>
    /\ status = "idle"
    /\ lastFocusedRef = Null
    /\ overflow = "unset"
    /\ listeners = 0
    /\ timers = {}
    /\ cleanup = NoCleanup
    /\ activeElement = Body
    /\ dom = <<>>
    /\ ev = NoEvent
    /\ hist = [focusBeforeOpen |-> Null, closedFrom |-> "none"]
    /\ detached = {}
    /\ page = "HomePage"
    /\ rail = RenderedRail(PageRailProps, FALSE)

----------------------------------------------------------------------------
(* Actions: one per user or timer event *)

\* the pointer clicks "Notify me at launch" or "Join the launch list"; the
\* overlay covers the page while the dialog is mounted
ClickTriggerResult(trigger, focusOnClick) ==
    Click(MouseFocus(Begin(State, "click", trigger, Null, FALSE),
                     trigger, focusOnClick), trigger)

ClickTrigger ==
    \E trigger \in Triggers, focusOnClick \in BOOLEAN :
        /\ ~Mounted(State)
        /\ trigger \in SeqToSet(PageElements(State))
        /\ Commit(ClickTriggerResult(trigger, focusOnClick))

\* the pointer clicks elsewhere on the page: its background or the mail link
ClickPage ==
    \E target \in {Body, FooterLink} :
        /\ ~Mounted(State)
        /\ InDocument(State, target)
        /\ Commit(MouseFocus(Begin(State, "click", target, Null, FALSE), target, TRUE))

\* the pointer clicks the overlay outside the dialog panel
ClickOverlay ==
    /\ Mounted(State)
    /\ Commit(Click(MouseFocus(Begin(State, "click", Overlay, Null, FALSE),
                               Overlay, TRUE), Overlay))

\* the pointer clicks something inside the dialog panel
ClickPanel ==
    \E target \in SeqToSet(Ids(dom)), focusOnClick \in BOOLEAN :
        /\ Mounted(State)
        /\ target \notin {CloseButton, SubmitButton} => focusOnClick
        /\ LET s == Begin(State, "click", target, Null, FALSE)
           IN  IF target = SubmitButton /\ SubmitIsDisabled(s)
               THEN Commit(s)
               ELSE Commit(Click(MouseFocus(s, target, focusOnClick), target))

\* the user edits the email field
TypeEmail ==
    \E value \in EmailValues :
        /\ Mounted(State)
        /\ activeElement = EmailInput
        /\ value # email
        /\ Commit(onChange(Begin(State, "input", EmailInput, Null, FALSE), value))

\* the default action of a keydown that reached the end of its dispatch
DefaultAction(s) ==
    IF s.ev.key = "Tab" THEN DefaultTab(s)
    ELSE IF s.ev.key = "Enter" THEN DefaultEnter(s)
    ELSE s

\* a key goes down: the window listeners, the queued state updates, then the
\* browser's default action for the key; the handler reads shiftKey for Tab
\* only, so the other keys are pressed without Shift
KeyDownResult(key, shiftKey) ==
    DefaultAction(Flush(DispatchKeyDown(
        Begin(State, "keydown", Null, key, shiftKey), listeners)))

KeyDown ==
    \E key \in {"Escape", "Tab", "Enter"}, shiftKey \in BOOLEAN :
        /\ shiftKey => key = "Tab"
        /\ Commit(KeyDownResult(key, shiftKey))

\* a pending timeout expires
TimerFire ==
    \E timer \in timers :
        Commit(TimerCallback([Begin(State, "timeout", Null, Null, FALSE)
                                  EXCEPT !.timers = timers \ {timer}]))

Next ==
    \/ ClickTrigger
    \/ ClickPage
    \/ ClickOverlay
    \/ ClickPanel
    \/ TypeEmail
    \/ KeyDown
    \/ TimerFire

Spec == Init /\ [][Next]_vars

\* the browser runs a timeout that stays pending: the timer is weakly fair;
\* nothing obliges the user to do anything
SpecFair == Spec /\ WF_vars(TimerFire)

----------------------------------------------------------------------------
(* The callbacks of HomePage invoked directly, in any state: the page's own *)
(* controls can request an open while open (Enter on a trigger that still   *)
(* has the focus) but never a close while closed                            *)

CallOpenModal ==
    /\ Len(ev.pending) = 0    \* no other event is being processed
    /\ Commit(Flush(openModal(Begin(State, "call", Null, Null, FALSE))))

CallCloseModal ==
    /\ Len(ev.pending) = 0    \* no other event is being processed
    /\ Commit(Flush(closeModal(Begin(State, "call", Null, Null, FALSE))))

NextCallbacks ==
    \/ Next
    \/ CallOpenModal
    \/ CallCloseModal

SpecCallbacks == Init /\ [][NextCallbacks]_vars

----------------------------------------------------------------------------
(* The page around the dialog removes one of its trigger buttons while the  *)
(* dialog is open, so that the element the focus memory holds can be gone   *)
(* when the dialog closes                                                   *)

\* the element leaves the document; if it had the focus, the focus falls
\* back to the body
RemoveElement(s, id) ==
    [s EXCEPT !.detached = s.detached \cup {id},
              !.activeElement = IF s.activeElement = id THEN Body
                                ELSE s.activeElement]

RemoveTrigger ==
    \E trigger \in Triggers :
        /\ isModalOpen
        /\ trigger \notin detached
        /\ Commit(RemoveElement(Begin(State, "remove", trigger, Null, FALSE), trigger))

NextVanish ==
    \/ Next
    \/ RemoveTrigger

SpecVanish == Init /\ [][NextVanish]_vars

----------------------------------------------------------------------------
(* HomePage is unmounted (the route is left) and mounted again, in any      *)
(* state, also while the dialog is open                                     *)

\* React unmounts HomePage and LaunchModal: the effect's cleanup runs, the
\* rendered elements leave the document, the component state and the ref are
\* discarded; nothing else touches the body's style or the window
Unmount(s) ==
    LET t == EffectCleanup(s)
    IN  [t EXCEPT !.page = NoPage,
                  !.isModalOpen = FALSE, !.email = <<>>, !.status = "idle",
                  !.lastFocusedRef = Null,
                  !.dom = <<>>,
                  !.activeElement = Body]

\* a fresh HomePage mounts: initial state, first render, first effect run
Mount(s) == RenderHomePage([s EXCEPT !.page = "HomePage"])

UnmountPage ==
    /\ page = "HomePage"
    /\ Commit(Unmount(Begin(State, "unmount", Null, Null, FALSE)))

MountPage ==
    /\ page = NoPage
    /\ Commit(Mount(Begin(State, "mount", Null, Null, FALSE)))

NextUnmount ==
    \/ Next
    \/ UnmountPage
    \/ MountPage

SpecUnmount == Init /\ [][NextUnmount]_vars

----------------------------------------------------------------------------
(* handleKeyDown as a function of the panel's content: the dialog is open   *)
(* and the panel holds any selection of the dialog's controls, each enabled *)
(* or disabled, also none at all; the focus starts anywhere in the document *)
(* and Tab keys are pressed                                                 *)

\* the ways a control can be in the panel
Presence == {"absent", "enabled", "disabled"}

PanelControl(id, tag, presence) ==
    IF presence = "absent" THEN <<>>
    ELSE <<Element(id, tag, presence = "disabled", <<>>)>>

PanelContent(close, input, submit) ==
    PanelControl(CloseButton, "button", close)
    \o <<Element(Description, "p", FALSE, <<>>)>>
    \o PanelControl(EmailInput, "input", input)
    \o PanelControl(SubmitButton, "button", submit)

InitTrap ==
    /\ isModalOpen = TRUE
    /\ email = <<>>
    /\ status = "idle"
    /\ lastFocusedRef = Hero
    /\ overflow = "hidden"
    /\ listeners = 1
    /\ timers = {}
    /\ cleanup = [registered |-> TRUE, timer |-> 1]
    /\ \E close \in Presence, input \in Presence, submit \in Presence :
           dom = PanelContent(close, input, submit)
    /\ activeElement \in {Body} \cup SeqToSet(PageTabOrder)
                           \cup SeqToSet(Ids(QuerySelectorAll(dom)))
    /\ ev = NoEvent
    /\ hist = [focusBeforeOpen |-> Hero, closedFrom |-> "none"]
    /\ detached = {}
    /\ page = "HomePage"
    /\ rail = RenderedRail(PageRailProps, FALSE)

\* a Tab or Shift+Tab keydown
KeyDownTab ==
    \E shiftKey \in BOOLEAN :
        /\ isModalOpen
        /\ Commit(KeyDownResult("Tab", shiftKey))

NextTrap == KeyDownTab

SpecTrap == InitTrap /\ [][NextTrap]_vars

----------------------------------------------------------------------------
(* The two page components of the source: HomePage, which renders the       *)
(* sections and LaunchModal, and Home of app/page.tsx, which renders its    *)
(* own hero and footer buttons and no LaunchModal                           *)

Pages == {"HomePage", "Home"}

InitRoute ==
    /\ isModalOpen = FALSE
    /\ email = <<>>
    /\ status = "idle"
    /\ lastFocusedRef = Null
    /\ overflow = "unset"
    /\ listeners = 0
    /\ timers = {}
    /\ cleanup = NoCleanup
    /\ activeElement = Body
    /\ dom = <<>>
    /\ ev = NoEvent
    /\ hist = [focusBeforeOpen |-> Null, closedFrom |-> "none"]
    /\ detached = {}
    /\ page \in Pages
    /\ rail = RenderedRail(PageRailProps, FALSE)

SpecRoute == InitRoute /\ [][Next]_vars

----------------------------------------------------------------------------
(* MarqueeRail on its own: every list of items, width, gap and motion       *)
(* preference; the rail renders, its animation runs from keyframe to        *)
(* keyframe and loops, the user switches the motion preference              *)

dialogVars == <<isModalOpen, email, status, lastFocusedRef, overflow, listeners,
                timers, cleanup, activeElement, dom, ev, hist, detached, page>>

InitMarquee ==
    /\ isModalOpen = FALSE
    /\ email = <<>>
    /\ status = "idle"
    /\ lastFocusedRef = Null
    /\ overflow = "unset"
    /\ listeners = 0
    /\ timers = {}
    /\ cleanup = NoCleanup
    /\ activeElement = Body
    /\ dom = <<>>
    /\ ev = NoEvent
    /\ hist = [focusBeforeOpen |-> Null, closedFrom |-> "none"]
    /\ detached = {}
    /\ page = "HomePage"
    /\ \E props \in RailProps, reducedMotion \in BOOLEAN :
           rail = UnrenderedRail(props, reducedMotion)

\* MarqueeRail(props) renders
RenderRail ==
    /\ ~rail.rendered
    /\ rail' = RenderedRail(rail.props, rail.reducedMotion)
    /\ UNCHANGED dialogVars

\* the running animation reaches its last keyframe
AnimateRail ==
    /\ rail.rendered
    /\ rail.animation = "marquee"
    /\ rail.keyframe = "from"
    /\ rail' = [rail EXCEPT !.keyframe = "to",
                            !.translateX = KeyframeTranslateX(rail.distance, "to")]
    /\ UNCHANGED dialogVars

\* animation-iteration-count infinite: the animation starts over
LoopRail ==
    /\ rail.rendered
    /\ rail.animation = "marquee"
    /\ rail.keyframe = "to"
    /\ rail' = [rail EXCEPT !.keyframe = "from",
                            !.translateX = KeyframeTranslateX(rail.distance, "from")]
    /\ UNCHANGED dialogVars

\* the user switches the reduced-motion preference: the media query flips,
\* an animation that is removed leaves no transform, one that is added starts
ToggleReducedMotion ==
    /\ rail.rendered
    /\ rail' = [rail EXCEPT !.reducedMotion = ~rail.reducedMotion,
                            !.animation = RailAnimation(~rail.reducedMotion),
                            !.keyframe = "from",
                            !.translateX = 0]
    /\ UNCHANGED dialogVars

NextMarquee ==
    \/ RenderRail
    \/ AnimateRail
    \/ LoopRail
    \/ ToggleReducedMotion

SpecMarquee == InitMarquee /\ [][NextMarquee]_vars

----------------------------------------------------------------------------
(* Type invariant *)

ElementIds == {Body, Hero, Footer, FooterLink, CloseButton, EmailInput, SubmitButton}

TypeOK ==
    /\ isModalOpen \in BOOLEAN
    /\ email \in EmailValues
    /\ status \in {"idle", "success"}
    /\ lastFocusedRef \in ElementIds \cup {Null}
    /\ overflow \in {"hidden", "unset"}
    /\ listeners \in 0..1
    /\ timers \subseteq 1..1
    /\ activeElement \in ElementIds
    /\ dom = RenderLaunchModal(State)
    /\ detached \subseteq Triggers
    /\ page \in Pages \cup {NoPage}

----------------------------------------------------------------------------
(* Vocabulary of the properties *)

DialogElementIds == {CloseButton, EmailInput, SubmitButton}

\* every character of the string is white space (so is the empty string)
OnlyWhiteSpace(str) == \A i \in 1..Len(str) : str[i] \in WhiteSpace

\* the value shown by the email field of a rendered dialog
InputValues(elements) ==
    {elements[i].value : i \in {j \in 1..Len(elements) : elements[j].id = EmailInput}}

IsTabKeyDown(e) == e.type = "keydown" /\ e.key = "Tab"
IsEscapeKeyDown(e) == e.type = "keydown" /\ e.key = "Escape"

----------------------------------------------------------------------------
(* C1: reset on close. Whenever the dialog goes from open to closed the     *)
(* email becomes the empty string and the status "idle", and whenever it    *)
(* goes from closed to open it is rendered with an empty email field and    *)
(* without the success region: nothing survives an open/close cycle.        *)

C1_ResetOnClose ==
    [][(isModalOpen # isModalOpen') =>
            /\ email' = <<>>
            /\ status' = "idle"
            /\ isModalOpen' => /\ InputValues(dom') = {<<>>}
                               /\ SuccessRegion \notin SeqToSet(Ids(dom'))]_vars

\* reopened after a cycle in which an email was typed and submitted and that
\* was closed from Open-Success
C1_Witness ==
    /\ isModalOpen
    /\ ev.type = "click" /\ ev.target \in Triggers /\ ev.pre = "Closed"
    /\ hist.closedFrom = "Open-Success"
    /\ email = <<>> /\ status = "idle"

----------------------------------------------------------------------------
(* C2: focus containment. A Tab or Shift+Tab key press while the dialog is  *)
(* open never leaves the focus on a focusable element of the page outside   *)
(* the dialog panel, whichever element held the focus before.               *)

C2_FocusContainment ==
    [][(IsTabKeyDown(ev') /\ isModalOpen) =>
            activeElement' \notin SeqToSet(PageTabOrder)]_vars

----------------------------------------------------------------------------
(* C3: wrap-around. With the dialog open, Tab on the last focusable element *)
(* of the panel moves the focus to the first one, Shift+Tab on the first    *)
(* moves it to the last one, and both suppress the default navigation.      *)

C3_WrapAround ==
    [][(IsTabKeyDown(ev') /\ isModalOpen) =>
            LET focusable == Ids(QuerySelectorAll(dom))
                first == focusable[1]
                last == focusable[Len(focusable)]
            IN  /\ Len(focusable) >= 2
                /\ (~ev'.shiftKey /\ activeElement = last) =>
                        (activeElement' = first /\ ev'.defaultPrevented)
                /\ (ev'.shiftKey /\ activeElement = first) =>
                        (activeElement' = last /\ ev'.defaultPrevented)]_vars

\* Tab was pressed on the submit button, last of three, and the focus is on
\* the close button
C3_Witness ==
    /\ isModalOpen
    /\ IsTabKeyDown(ev) /\ ~ev.shiftKey /\ ev.defaultPrevented
    /\ ev.preFocus = SubmitButton
    /\ activeElement = CloseButton
    /\ Len(QuerySelectorAll(dom)) = 3

----------------------------------------------------------------------------
(* C4: state agreement. In every state the dialog is open exactly when it   *)
(* is rendered, exactly when the body's overflow is hidden and exactly when *)
(* one keydown listener is attached; a key press while the dialog is closed *)
(* runs no handler and prevents nothing.                                    *)

C4_StateAgreement ==
    /\ isModalOpen <=> Mounted(State)
    /\ isModalOpen <=> overflow = "hidden"
    /\ isModalOpen <=> listeners = 1
    /\ ~isModalOpen <=> listeners = 0
    /\ (ev.type = "keydown" /\ ev.pre = "Closed") =>
            (ev.handlerRuns = 0 /\ ~ev.defaultPrevented)
    /\ ((IsEscapeKeyDown(ev) \/ IsTabKeyDown(ev)) /\ ev.pre = "Closed") =>
            (~isModalOpen /\ email = <<>> /\ status = "idle" /\ timers = {})

\* Escape pressed while the dialog is closed, after an earlier open/close cycle
C4_Witness ==
    /\ IsEscapeKeyDown(ev) /\ ev.pre = "Closed"
    /\ hist.closedFrom # "none"
    /\ ~isModalOpen

----------------------------------------------------------------------------
(* C5: cancellation of the deferred focus. No timer is pending while the    *)
(* dialog is closed, a pending timer is the one of the current open, and no *)
(* timer callback runs in the Closed state.                                 *)

C5_DeferredFocusCancelled ==
    /\ ~isModalOpen => timers = {}
    /\ isModalOpen => (cleanup.registered /\ timers \subseteq {cleanup.timer})
    /\ ev.type = "timeout" => ev.pre # "Closed"

\* the dialog was closed while its timer was still pending
C5_Witness ==
    /\ ~isModalOpen
    /\ ev.pre # "Closed" /\ ev.prePending
    /\ timers = {}

----------------------------------------------------------------------------
(* C6: success requires a non-empty email. The status goes from "idle" to   *)
(* "success" only in a step that dispatches the form's submit event while   *)
(* the email holds a character that is not white space, and no submit event *)
(* is dispatched while the email is empty or white space only.              *)

C6_SuccessNeedsEmail ==
    [][/\ (status = "idle" /\ status' = "success") =>
              (ev'.submitted /\ ~OnlyWhiteSpace(email) /\ email' = email)
       /\ ev'.submitted => ~OnlyWhiteSpace(email)]_vars

\* Open-Idle became Open-Success by a submission
C6_Witness ==
    /\ isModalOpen /\ status = "success"
    /\ ev.submitted /\ ev.pre = "Open-Idle"
    /\ ~OnlyWhiteSpace(email)

----------------------------------------------------------------------------
(* C7: submit gating. In every open state the rendered submit control is    *)
(* disabled exactly when the email consists of white space only (its trim   *)
(* is empty), and the email field shows the email.                          *)

C7_SubmitGating ==
    isModalOpen =>
        /\ SubmitIsDisabled(State) <=> OnlyWhiteSpace(email)
        /\ InputValues(dom) = {email}

\* a non-empty email of white space only, the control disabled
C7_Witness ==
    /\ isModalOpen
    /\ Len(email) > 0 /\ OnlyWhiteSpace(email)
    /\ SubmitIsDisabled(State)

----------------------------------------------------------------------------
(* C8: Escape closes. An Escape key press while the dialog is open, in      *)
(* either sub-state and wherever the focus is, closes the dialog.           *)

C8_EscapeCloses ==
    [][(IsEscapeKeyDown(ev') /\ isModalOpen) =>
            (~isModalOpen' /\ ev'.defaultPrevented /\ ev'.handlerRuns = 1)]_vars

\* closed by Escape from Open-Success with the focus outside the dialog
C8_Witness ==
    /\ ~isModalOpen
    /\ IsEscapeKeyDown(ev) /\ ev.pre = "Open-Success"
    /\ ev.preFocus \notin DialogElementIds

----------------------------------------------------------------------------
(* C9: outside-click contract. While the dialog is open a click on the      *)
(* overlay closes it; a click on a part of the panel other than the close   *)
(* button leaves it open and does not reach the overlay's handler.          *)

C9_OutsideClick ==
    [][(ev'.type = "click" /\ isModalOpen) =>
            /\ ev'.target = Overlay => (~isModalOpen' /\ ev'.reachedOverlay)
            /\ ev'.target \in {Description, EmailInput, SubmitButton, SuccessRegion} =>
                   (isModalOpen' /\ ~ev'.reachedOverlay)
            /\ ev'.target = CloseButton => ~ev'.reachedOverlay]_vars

\* the enabled submit button was clicked: the form was submitted, the dialog
\* is still open
C9_Witness ==
    /\ isModalOpen
    /\ ev.type = "click" /\ ev.target = SubmitButton /\ ev.submitted
    /\ ~ev.reachedOverlay

----------------------------------------------------------------------------
(* C10: focus restore on close. Whenever the dialog goes from open to       *)
(* closed, the focus is then on the element that held it immediately before *)
(* the most recent transition from closed to open.                          *)

C10_FocusRestored ==
    [][(isModalOpen /\ ~isModalOpen') => activeElement' = hist.focusBeforeOpen]_vars

----------------------------------------------------------------------------
(* C11: idempotent open. A request to open while the dialog is open changes *)
(* nothing: it stays open, the email, the status, the focus, the scroll     *)
(* lock, the listener and the timer are unchanged, and the focus memory     *)
(* still holds the element recorded before the first open.                  *)

\* the event called setIsModalOpen(value)
Requested(e, value) == \E i \in 1..Len(e.requests) : e.requests[i] = value

\* everything but the record of the last event
stateVars == <<isModalOpen, email, status, lastFocusedRef, overflow, listeners,
               timers, cleanup, activeElement, dom, hist, detached, page>>

C11_IdempotentOpen ==
    [][(isModalOpen /\ Requested(ev', TRUE)) =>
            /\ UNCHANGED stateVars
            /\ isModalOpen'
            /\ lastFocusedRef' = hist.focusBeforeOpen]_vars

\* open was requested while the dialog was open with the focus inside it and
\* an email typed
C11_Witness ==
    /\ isModalOpen
    /\ Requested(ev, TRUE) /\ ev.pre # "Closed"
    /\ email # <<>>
    /\ activeElement \in DialogElementIds
    /\ lastFocusedRef \notin DialogElementIds

----------------------------------------------------------------------------
(* C12: idempotent close. A request to close while the dialog is closed     *)
(* changes nothing: it stays closed with an empty email and status "idle",  *)
(* the scroll lock stays released, no listener or timer exists, and the     *)
(* focus is not moved.                                                      *)

C12_IdempotentClose ==
    [][(~isModalOpen /\ Requested(ev', FALSE)) =>
            /\ UNCHANGED stateVars
            /\ ~isModalOpen' /\ email' = <<>> /\ status' = "idle"
            /\ overflow' = "unset" /\ listeners' = 0 /\ timers' = {}]_vars

\* close was requested while closed, after an earlier cycle, with the focus
\* on another element than the one the focus memory holds
C12_Witness ==
    /\ ~isModalOpen
    /\ Requested(ev, FALSE) /\ ev.pre = "Closed"
    /\ hist.closedFrom # "none"
    /\ lastFocusedRef \notin {Null, Body}
    /\ activeElement # lastFocusedRef

----------------------------------------------------------------------------
(* C13: marquee duplication. For every list of N >= 0 items the rail        *)
(* renders exactly 2N children: the items in order, then the items in order *)
(* again, so that position i and position i + N show the same item; each    *)
(* rendered position got one renderItem call with the position, counted     *)
(* from 0, as index. For N = 0 the track is empty.                          *)

C13_MarqueeDuplication ==
    rail.rendered =>
        LET N == Len(rail.props.items)
        IN  /\ Len(rail.children) = 2 * N
            /\ \A i \in 1..N :
                  /\ rail.children[i].item = rail.props.items[i]
                  /\ rail.children[i + N].item = rail.props.items[i]
            /\ \A k \in 1..(2 * N) : rail.children[k].index = k - 1

\* a rendered rail of two different items
C13_Witness ==
    /\ rail.rendered
    /\ Len(rail.props.items) >= 2
    /\ rail.props.items[1] # rail.props.items[2]
    /\ Len(rail.children) = 2 * Len(rail.props.items)

----------------------------------------------------------------------------
(* C14: marquee translation distance. Lengths in half pixels.               *)

\* the track length the claim computes from N, W and G
ClaimedTrackLength(N, W, G) == 2 * N * Px(W) + (2 * N - 1) * Px(G)

----------------------------------------------------------------------------
(* C15: seamless loop. For N >= 1, once the track is translated by the full *)
(* loop distance, every child i + N sits exactly where child i sat before   *)
(* the translation and shows the same item: the loop distance is the offset *)
(* N*(W+G) between an item and its duplicate.                               *)

C15_SeamlessLoop ==
    (rail.rendered /\ rail.keyframe = "to" /\ Len(rail.props.items) >= 1) =>
        LET N == Len(rail.props.items)
        IN  /\ \A i \in 1..N :
                  /\ ChildX(rail.props, i + N) + rail.translateX = ChildX(rail.props, i)
                  /\ rail.children[i + N].item = rail.children[i].item
            /\ 0 - rail.translateX = N * (Px(rail.props.width) + Px(rail.props.gap))

----------------------------------------------------------------------------
(* C16: reduced motion. While the reduced-motion preference is active the   *)
(* track has no running animation, its translation is zero and its first N  *)
(* children are the N items in their static places; an animation runs only  *)
(* while the preference is inactive.                                        *)

C16_ReducedMotion ==
    rail.rendered =>
        /\ rail.reducedMotion =>
              /\ rail.animation = "none"
              /\ rail.keyframe = "from"
              /\ rail.translateX = 0
              /\ \A i \in 1..Len(rail.props.items) :
                    /\ rail.children[i].item = rail.props.items[i]
                    /\ ChildX(rail.props, i) + rail.translateX =
                           (i - 1) * (Px(rail.props.width) + Px(rail.props.gap))
        /\ (rail.animation # "none" \/ rail.translateX # 0) => ~rail.reducedMotion

\* a rendered rail with items under the preference
C16_Witness ==
    /\ rail.rendered
    /\ rail.reducedMotion
    /\ Len(rail.props.items) >= 1
    /\ rail.animation = "none"

----------------------------------------------------------------------------
(* C17: restoring focus to a vanished element is harmless. When the dialog  *)
(* closes while the element in the focus memory has left the document (or   *)
(* the memory is empty), the close completes all the same: the dialog is    *)
(* unmounted, the scroll lock released, email and status reset, no listener *)
(* or timer left; the focus is not moved to that element: it is where the   *)
(* closing event left it, or on the body.                                   *)

C17_VanishedFocusTarget ==
    (/\ ~isModalOpen
     /\ ev.pre # "Closed"
     /\ (lastFocusedRef = Null \/ lastFocusedRef \in detached)) =>
        /\ dom = <<>>
        /\ overflow = "unset"
        /\ email = <<>> /\ status = "idle"
        /\ listeners = 0 /\ timers = {}
        /\ activeElement # lastFocusedRef
        /\ activeElement \notin detached
        /\ activeElement \in {Body, ev.preFocus}

\* the dialog was closed from Open-Success after the trigger that opened it
\* was removed
C17_Witness ==
    /\ ~isModalOpen
    /\ ev.pre = "Open-Success"
    /\ lastFocusedRef \in detached
    /\ lastFocusedRef = hist.focusBeforeOpen

----------------------------------------------------------------------------
(* C18: the disabled state is exposed to assistive technology. While the    *)
(* dialog is rendered it has one submit button, and that button carries     *)
(* aria-disabled exactly when it is disabled, which is exactly when the     *)
(* email is empty after trimming.                                           *)

SubmitButtons == {i \in 1..Len(dom) : dom[i].id = SubmitButton}

C18_AriaDisabled ==
    /\ isModalOpen => Cardinality(SubmitButtons) = 1
    /\ \A i \in SubmitButtons :
          /\ (dom[i].ariaDisabled = "true") <=> dom[i].disabled
          /\ dom[i].ariaDisabled \in {"true", Null}
          /\ dom[i].disabled <=> OnlyWhiteSpace(email)

\* the dialog shows a disabled submit button for an email of white space
C18_Witness ==
    /\ isModalOpen
    /\ email # <<>> /\ OnlyWhiteSpace(email)
    /\ \E i \in SubmitButtons : dom[i].disabled /\ dom[i].ariaDisabled = "true"

----------------------------------------------------------------------------------------------------------------------------------------
(* C19: no terminal state. In every reachable state a key can be pressed,   *)
(* so some event can always happen. In every state with the dialog open     *)
(* (Open-Idle or Open-Success, with or without a pending deferred focus)    *)
(* the Escape key closes it, and in every state with the dialog closed a    *)
(* click on either trigger is possible and opens it in Open-Idle. So from   *)
(* every reachable state both Closed and Open-Idle stay reachable, through  *)
(* any number of cycles.                                                    *)

C19_NoTerminalState ==
    /\ isModalOpen => SubState(KeyDownResult("Escape", FALSE)) = "Closed"
    /\ ~isModalOpen =>
          \A trigger \in Triggers, focusOnClick \in BOOLEAN :
              /\ ~Mounted(State)
              /\ trigger \notin detached
              /\ SubState(ClickTriggerResult(trigger, focusOnClick)) = "Open-Idle"

\* Open-Success in a later cycle, the deferred focus still pending
C19_Witness ==
    /\ isModalOpen
    /\ status = "success"
    /\ timers # {}
    /\ hist.closedFrom = "Open-Success"

----------------------------------------------------------------------------
(* C20: the open triggers are wired. In the page as composed, while the     *)
(* dialog is closed, a click on the hero button "Notify me at launch" or on *)
(* the footer button "Join the launch list" leaves the one dialog rendered  *)
(* in Open-Idle.                                                            *)

C20_TriggersWired ==
    (ev.type = "click" /\ ev.target \in Triggers /\ ev.pre = "Closed") =>
        /\ isModalOpen
        /\ status = "idle" /\ email = <<>>
        /\ Mounted(State)
        /\ Cardinality({i \in 1..Len(dom) : dom[i].id = CloseButton}) = 1

----------------------------------------------------------------------------
(* C21: the deferred focus eventually happens. Once an event has opened the *)
(* dialog, then, the timer being fair, the keyboard focus eventually is on  *)
(* the email input, unless the dialog is closed first.                      *)

C21_DeferredFocusHappens ==
    (isModalOpen /\ ev.pre = "Closed") ~> (~isModalOpen \/ activeElement = EmailInput)

\* the timeout has fired in an open dialog and moved the focus to the input
C21_Witness ==
    /\ isModalOpen
    /\ ev.type = "timeout"
    /\ ev.preFocus # EmailInput
    /\ activeElement = EmailInput

----------------------------------------------------------------------------
(* C22: release on every exit path. After every event that began with the   *)
(* dialog open and ended with it not rendered (close button, Escape,        *)
(* overlay click, unmount of the component while open) the scroll lock is   *)
(* released, no keydown listener is attached and no deferred focus is       *)
(* pending.                                                                 *)

C22_ReleaseOnExit ==
    (ev.pre # "Closed" /\ ~Mounted(State)) =>
        /\ overflow = "unset"
        /\ listeners = 0
        /\ timers = {}
        /\ ~cleanup.registered

\* the component was unmounted while open, the deferred focus still pending
C22_Witness ==
    /\ ev.type = "unmount"
    /\ ev.pre # "Closed" /\ ev.prePending
    /\ page = NoPage
    /\ ~Mounted(State)

----------------------------------------------------------------------------
(* C23: the focus-trap set is recomputed per key press. The first and last  *)
(* element of the wrap-around are those focusable when the key goes down:   *)
(* while the trimmed email is empty the submit button is disabled and left  *)
(* out, so Tab on the email input wraps to the close button and Shift+Tab   *)
(* on the close button wraps to the email input; while it is not empty Tab  *)
(* on the email input does not wrap and goes on to the submit button, Tab   *)
(* on the submit button wraps to the close button and Shift+Tab on the      *)
(* close button wraps to the submit button.                                 *)

C23_TrapSetPerKeyPress ==
    (IsTabKeyDown(ev) /\ ev.pre # "Closed") =>
        /\ (~ev.shiftKey /\ ev.preFocus = EmailInput /\ OnlyWhiteSpace(email)) =>
              (activeElement = CloseButton /\ ev.defaultPrevented)
        /\ (~ev.shiftKey /\ ev.preFocus = EmailInput /\ ~OnlyWhiteSpace(email)) =>
              (activeElement = SubmitButton /\ ~ev.defaultPrevented)
        /\ (~ev.shiftKey /\ ev.preFocus = SubmitButton) =>
              (activeElement = CloseButton /\ ev.defaultPrevented)
        /\ (ev.shiftKey /\ ev.preFocus = CloseButton /\ OnlyWhiteSpace(email)) =>
              (activeElement = EmailInput /\ ev.defaultPrevented)
        /\ (ev.shiftKey /\ ev.preFocus = CloseButton /\ ~OnlyWhiteSpace(email)) =>
              (activeElement = SubmitButton /\ ev.defaultPrevented)

\* Tab on the email input did not wrap: an email was typed and the focus
\* went on to the submit button
C23_Witness ==
    /\ isModalOpen
    /\ IsTabKeyDown(ev) /\ ~ev.shiftKey /\ ~ev.defaultPrevented
    /\ ev.preFocus = EmailInput
    /\ ~OnlyWhiteSpace(email)
    /\ activeElement = SubmitButton

----------------------------------------------------------------------------
(* C24: submission changes only the status. A form submission in an open    *)
(* state sets the status to "success" and leaves the email, the open flag,  *)
(* the scroll lock, the listener, the pending timer and the focus memory as *)
(* they were; the email field is still rendered with the typed value, next  *)
(* to the success region.                                                   *)

C24_SubmitFrame ==
    [][(isModalOpen /\ ev'.submitted) =>
            /\ status' = "success"
            /\ email' = email
            /\ isModalOpen'
            /\ overflow' = overflow /\ overflow' = "hidden"
            /\ listeners' = listeners
            /\ timers' = timers
            /\ cleanup' = cleanup
            /\ lastFocusedRef' = lastFocusedRef
            /\ InputValues(dom') = {email}
            /\ SuccessRegion \in SeqToSet(Ids(dom'))]_vars

\* a first submission of a typed email, from Open-Idle
C24_Witness ==
    /\ ev.submitted
    /\ ev.pre = "Open-Idle"
    /\ status = "success"
    /\ email # <<>>
    /\ InputValues(dom) = {email}

----------------------------------------------------------------------------
(* C25: empty focusable set. If, when Tab or Shift+Tab goes down with the   *)
(* dialog open, the panel holds no focusable element (nothing but text and  *)
(* disabled controls), the default navigation is suppressed and the focus   *)
(* stays where it was.                                                      *)

NothingFocusable(elements) ==
    \A i \in 1..Len(elements) : elements[i].disabled \/ elements[i].tag = "p"

C25_EmptyFocusableSet ==
    (IsTabKeyDown(ev) /\ isModalOpen /\ NothingFocusable(dom)) =>
        /\ ev.defaultPrevented
        /\ ev.handlerRuns = 1
        /\ activeElement = ev.preFocus

\* Tab went down over a panel whose controls are all disabled, the focus on
\* a button of the page
C25_Witness ==
    /\ IsTabKeyDown(ev) /\ isModalOpen
    /\ NothingFocusable(dom)
    /\ Len(dom) > 1
    /\ ev.defaultPrevented
    /\ ev.preFocus = Hero /\ activeElement = Hero

----------------------------------------------------------------------------
(* C26: focus memory lifetime. In every state with the dialog closed the    *)
(* focus memory is empty: the element that had the focus before an open is  *)
(* held only while the dialog is open.                                      *)

C26_FocusMemoryLifetime ==
    ~isModalOpen => lastFocusedRef = Null

----------------------------------------------------------------------------
(* C27: success is sticky until close. Once the status is "success" every   *)
(* step that leaves the dialog open (typing, also clearing the field, and   *)
(* further submissions) leaves it "success"; it is "idle" again exactly     *)
(* when the dialog closes. So "success" can stand next to an empty email.   *)

C27_SuccessSticky ==
    [][status = "success" =>
            /\ isModalOpen
            /\ isModalOpen' => status' = "success"
            /\ ~isModalOpen' => status' = "idle"
            /\ (ev'.type = "input" \/ ev'.submitted) => isModalOpen']_vars

\* the field was cleared after the submission: "success" with an empty email
C27_Witness ==
    /\ isModalOpen
    /\ status = "success"
    /\ ev.type = "input" /\ ev.pre = "Open-Success"
    /\ email = <<>>

----------------------------------------------------------------------------
(* C28: the open side effects run exactly once per open. A step from closed *)
(* to open records the focused element in the focus memory, locks the       *)
(* scroll, attaches one listener and schedules one deferred focus. A step   *)
(* that begins and ends open (typing, submitting, any key or click) runs    *)
(* none of them again: the focus memory, the scroll lock, the listener and  *)
(* the cleanup stay as they were and no new timer appears.                  *)

C28_OpenEffectsOnce ==
    [][/\ (~isModalOpen /\ isModalOpen') =>
              /\ lastFocusedRef' = activeElement'
              /\ lastFocusedRef' \notin DialogElementIds
              /\ overflow' = "hidden"
              /\ listeners = 0 /\ listeners' = 1
              /\ timers = {} /\ Cardinality(timers') = 1
       /\ (isModalOpen /\ isModalOpen') =>
              /\ lastFocusedRef' = lastFocusedRef
              /\ overflow' = overflow
              /\ listeners' = listeners
              /\ cleanup' = cleanup
              /\ timers' \subseteq timers]_vars

\* an email was typed and submitted after the deferred focus had fired: the
\* focus memory still holds the element from outside the dialog
C28_Witness ==
    /\ isModalOpen
    /\ ev.submitted /\ email # <<>>
    /\ timers = {}
    /\ lastFocusedRef = hist.focusBeforeOpen
    /\ lastFocusedRef \notin DialogElementIds
    /\ activeElement \in DialogElementIds
    /\ listeners = 1

----------------------------------------------------------------------------
(* C29: at most one deferred focus. In every state at most one timer is     *)
(* pending, and a pending timer is the one the current open scheduled, so   *)
(* none is pending while closed and none survives from an earlier cycle.    *)
(* The timer callback runs only in an open dialog with its timer pending    *)
(* and leaves none pending, and an open dialog without a pending timer gets *)
(* no new one: the deferred focus fires at most once per open.              *)

C29_OneDeferredFocus ==
    [][/\ Cardinality(timers) <= 1 /\ Cardinality(timers') <= 1
       /\ timers' # {} =>
              (isModalOpen' /\ cleanup'.registered /\ timers' = {cleanup'.timer})
       /\ ev'.type = "timeout" =>
              (isModalOpen /\ isModalOpen' /\ timers # {} /\ timers' = {})
       /\ (isModalOpen /\ isModalOpen' /\ timers = {}) => timers' = {}
       /\ (~isModalOpen /\ isModalOpen') => timers = {}]_vars

\* the deferred focus has fired in a later open/close cycle, after an earlier
\* dialog was closed
C29_Witness ==
    /\ isModalOpen
    /\ ev.type = "timeout" /\ ev.prePending
    /\ timers = {}
    /\ hist.closedFrom # "none"
    /\ activeElement = EmailInput

====
